---- MODULE Spec2Model ----
(***************************************************************************)
(* Model of linux_assistant.py: the LinuxAssistant window.                 *)
(*                                                                         *)
(*  - the refresh loop (_update_chart, rescheduled with after());          *)
(*  - the command runner (_run_cmd and its worker thread), the buttons     *)
(*    that start it and the reboot confirmation;                           *)
(*  - the file helpers (op_create_file, op_create_dir, op_delete_file,     *)
(*    op_delete_dir) over a small file system, with the log file.          *)
(*                                                                         *)
(* Text is modelled as a sequence of lines; a line is a tuple such as      *)
(* <<"$", cmd>> for f"$ {cmd}\n".  Percentages are integers in hundredths  *)
(* of a percent (1234 is 12.34%), formatted texts in tenths.               *)
(***************************************************************************)
EXTENDS Integers, Sequences, FiniteSets, TLC

VARIABLES
    window,         \* "open" until op_exit destroys it (the process ends)
    after_pending,  \* TRUE while an after() timer for _update_chart is set
    ticks,          \* number of _update_chart runs so far
    metrics,        \* (cpu, ram, disk) read by the latest completed tick
    cpu_history,    \* self.cpu_history
    ram_history,    \* self.ram_history
    legend_labels,  \* text of the three legend labels, in tenths of a percent
    term,           \* self.term: [state, text]
    threads,        \* the worker threads started by _run_cmd, in start order
    confirm,        \* the askyesno prompt of op_reboot: none/open/yes/no
    fs,             \* the file system: path -> "absent" | "file" | "dir"
    log,            \* lines appended to log.txt
    callback        \* the latest button callback: handler, input, outcome

vars == <<window, after_pending, ticks, metrics, cpu_history, ram_history,
          legend_labels, term, threads, confirm, fs, log, callback>>

chart_vars == <<after_pending, ticks, metrics, cpu_history, ram_history,
                legend_labels>>
cmd_vars == <<term, threads, confirm>>
file_vars == <<fs, log, callback>>

------------------------------------------------------------------------------
\* Bounds of the model.
MaxTicks == 4
MaxRuns == 2
MaxLog == 2

\* deque(..., maxlen=60)
HISTORY_MAXLEN == 60

None == <<"None">>

------------------------------------------------------------------------------
\* The Tk main loop dispatches an event (a button press, a timer) only when
\* the main thread is not inside a call that blocks.
mainloop_idle ==
    \A i \in 1..Len(threads) :
        threads[i].thread = "main" => threads[i].pc = "done"

------------------------------------------------------------------------------
\* The refresh loop.

\* The triples (cpu, ram, disk) a tick may read, in hundredths of a percent.
Samples == { <<0, 0, 0>>, <<1234, 5678, 10000>>, <<996, 4004, 7349>> }

\* f"{val:.1f}": val to the nearest tenth (ties to even), in tenths.
Format1(val) ==
    LET q == val \div 10
        r == val % 10
    IN  IF r < 5 THEN q
        ELSE IF r > 5 THEN q + 1
        ELSE IF q % 2 = 0 THEN q ELSE q + 1

\* deque([0]*60, maxlen=60)
deque_init == [i \in 1..HISTORY_MAXLEN |-> 0]

\* deque.append on a deque with maxlen: a full deque drops its leftmost item.
deque_append_dropnew(d, x) ==
    IF Len(d) < HISTORY_MAXLEN THEN Append(d, x) ELSE d
deque_append(d, x) ==
    IF Len(d) < HISTORY_MAXLEN THEN Append(d, x) ELSE Append(Tail(d), x)

\* The loop over (cpu,'CPU'), (ram,'RAM'), (disk,'Disk') setting each label.
legend_config_swapped(cpu, ram, disk) ==
    [key \in {"CPU", "RAM", "Disk"} |->
        IF key = "CPU" THEN Format1(ram)
        ELSE IF key = "RAM" THEN Format1(cpu) ELSE Format1(disk)]
legend_config(cpu, ram, disk) ==
    [key \in {"CPU", "RAM", "Disk"} |->
        IF key = "CPU" THEN Format1(cpu)
        ELSE IF key = "RAM" THEN Format1(ram) ELSE Format1(disk)]

\* The main loop runs the callback of a timer that is set, when it is idle.
Timer == window = "open" /\ after_pending /\ ticks < MaxTicks /\ mainloop_idle

\* A tick whose three reads succeed: labels, both histories, then after().
_update_chart_ok ==
    /\ Timer
    /\ \E s \in Samples :
        /\ metrics' = s
        /\ legend_labels' = legend_config(s[1], s[2], s[3])
        /\ cpu_history' = deque_append(cpu_history, s[1])
        /\ ram_history' = deque_append(ram_history, s[2])
    /\ ticks' = ticks + 1
    /\ after_pending' = TRUE
    /\ UNCHANGED <<window, cmd_vars, file_vars>>

\* A tick in which psutil raises at one of the three reads: the exception
\* leaves _update_chart before anything is updated and before after().
_update_chart_raise ==
    /\ Timer
    /\ ticks' = ticks + 1
    /\ after_pending' = FALSE
    /\ UNCHANGED <<window, metrics, legend_labels, cpu_history, ram_history,
                   cmd_vars, file_vars>>

_update_chart == _update_chart_ok \/ _update_chart_raise

------------------------------------------------------------------------------
\* The command runner.

Commands == { "top -bn1 | grep 'Cpu(s)'", "free -m", "df -h",
              "ip -brief addr", "reboot" }

\* Texts a command may write; "" is the empty tuple.
Empty == <<>>
StdoutOf(cmd) == <<"stdout", cmd>>
StderrOf(cmd) == <<"stderr", cmd>>

NoResult == [kind |-> "none", stdout |-> Empty, stderr |-> Empty,
             returncode |-> 0]

\* What subprocess.run(cmd, shell=True, capture_output=True, text=True) may
\* do: return a CompletedProcess, or raise.  With shell=True a command that
\* is not found is the shell's exit status 127 and a message on stderr.
Completed(so, se, rc) == [kind |-> "completed", stdout |-> so, stderr |-> se,
                          returncode |-> rc]
Raised == [kind |-> "raised", stdout |-> Empty, stderr |-> Empty,
           returncode |-> 0]
Outcomes(cmd) ==
    { Completed(StdoutOf(cmd), Empty, 0),
      Completed(StdoutOf(cmd), StderrOf(cmd), 1),
      Completed(Empty, StderrOf(cmd), 1),
      Completed(Empty, StderrOf(cmd), 127),
      Completed(Empty, Empty, 0),
      Raised }

\* res.stdout or res.stderr or ""
out_stderr_first(res) ==
    IF res.stderr # Empty THEN res.stderr
    ELSE IF res.stdout # Empty THEN res.stdout ELSE Empty
out(res) ==
    IF res.stdout # Empty THEN res.stdout
    ELSE IF res.stderr # Empty THEN res.stderr ELSE Empty

Header(cmd) == <<"$", cmd>>
ErrorLine == <<"Error:", "e">>

\* Tk's Text widget: insert and delete do nothing while state is 'disabled'.
text_insert(t, line) ==
    IF t.state = "normal" THEN [t EXCEPT !.text = Append(@, line)] ELSE t
text_delete(t) ==
    IF t.state = "normal" THEN [t EXCEPT !.text = <<>>] ELSE t

\* A thread that has ended: its locals are gone.
Done(th) == [cmd |-> "", pc |-> "done", res |-> NoResult, thread |-> th]

\* The threads still running, and those of them whose command will return.
Live(ths) == { i \in 1..Len(ths) : ths[i].pc # "done" }
Busy(ths) == { i \in Live(ths) : ths[i].pc # "hung" }

\* threading.Thread(target=worker, daemon=True).start()
_run_cmd_inline(cmd) ==
    /\ Len(threads) < MaxRuns
    /\ threads' = Append(threads, [cmd |-> cmd, pc |-> "configure_normal",
                                   res |-> NoResult, thread |-> "main"])
    /\ UNCHANGED term
_run_cmd(cmd) ==
    /\ Len(threads) < MaxRuns
    /\ threads' = Append(threads, [cmd |-> cmd, pc |-> "configure_normal",
                                   res |-> NoResult, thread |-> "worker"])
    /\ UNCHANGED term

Button == window = "open" /\ confirm # "open" /\ mainloop_idle

op_cpu_usage ==
    /\ Button /\ _run_cmd("top -bn1 | grep 'Cpu(s)'")
    /\ UNCHANGED <<window, confirm, chart_vars, file_vars>>

op_memory_usage ==
    /\ Button /\ _run_cmd("free -m")
    /\ UNCHANGED <<window, confirm, chart_vars, file_vars>>

op_disk_usage ==
    /\ Button /\ _run_cmd("df -h")
    /\ UNCHANGED <<window, confirm, chart_vars, file_vars>>

op_network_info ==
    /\ Button /\ _run_cmd("ip -brief addr")
    /\ UNCHANGED <<window, confirm, chart_vars, file_vars>>

\* op_reboot up to the modal prompt: messagebox.askyesno('Confirm', ...)
\* opens and waits; timers and the workers' calls are still served.
op_reboot_ask ==
    /\ Button
    /\ confirm' = "open"
    /\ UNCHANGED <<window, term, threads, chart_vars, file_vars>>

\* The rest of op_reboot once the user answers: _run_cmd("reboot") on yes.
op_reboot_unguarded(yes) ==
    /\ confirm' = IF yes THEN "yes" ELSE "no"
    /\ _run_cmd("reboot")
op_reboot_answer(yes) ==
    /\ confirm' = IF yes THEN "yes" ELSE "no"
    /\ IF yes THEN _run_cmd("reboot") ELSE UNCHANGED <<term, threads>>

op_reboot_return ==
    /\ window = "open" /\ confirm = "open"
    /\ \E yes \in BOOLEAN : op_reboot_answer(yes)
    /\ UNCHANGED <<window, chart_vars, file_vars>>

op_reboot == op_reboot_ask \/ op_reboot_return

\* The steps of worker thread i.  Each call on self.term is served by the
\* main loop as one event; subprocess.run runs in the thread itself.
At(i, pc) == window = "open" /\ i \in DOMAIN threads /\ threads[i].pc = pc

worker_configure_normal(i) ==
    /\ At(i, "configure_normal")
    /\ term' = [term EXCEPT !.state = "normal"]
    /\ threads' = [threads EXCEPT ![i].pc = "delete"]
    /\ UNCHANGED <<window, confirm, chart_vars, file_vars>>

worker_delete(i) ==
    /\ At(i, "delete")
    /\ term' = text_delete(term)
    /\ threads' = [threads EXCEPT ![i].pc = "insert_header"]
    /\ UNCHANGED <<window, confirm, chart_vars, file_vars>>

worker_insert_header(i) ==
    /\ At(i, "insert_header")
    /\ term' = text_insert(term, Header(threads[i].cmd))
    /\ threads' = [threads EXCEPT ![i].pc = "subprocess_run"]
    /\ UNCHANGED <<window, confirm, chart_vars, file_vars>>

\* subprocess.run returns or raises ...
worker_subprocess_run(i) ==
    /\ At(i, "subprocess_run")
    /\ \E res \in Outcomes(threads[i].cmd) :
         threads' = [threads EXCEPT ![i].pc = "insert_out", ![i].res = res]
    /\ UNCHANGED <<window, term, confirm, chart_vars, file_vars>>

\* ... or the command never terminates and subprocess.run never returns.
worker_hang(i) ==
    /\ At(i, "subprocess_run")
    /\ threads' = [threads EXCEPT ![i].pc = "hung"]
    /\ UNCHANGED <<window, term, confirm, chart_vars, file_vars>>

\* The line the worker inserts after the run: out + "\n" in the try block,
\* f"Error: {e}\n" in the except block.
worker_line_always_out(res) == out(res)
worker_line(res) == IF res.kind = "raised" THEN ErrorLine ELSE out(res)

worker_insert_out(i) ==
    /\ At(i, "insert_out")
    /\ term' = text_insert(term, worker_line(threads[i].res))
    /\ threads' = [threads EXCEPT ![i].pc = "configure_disabled"]
    /\ UNCHANGED <<window, confirm, chart_vars, file_vars>>

\* configure(state='disabled'), see('end'), and the thread ends.
worker_configure_disabled(i) ==
    /\ At(i, "configure_disabled")
    /\ term' = [term EXCEPT !.state = "disabled"]
    /\ threads' = [threads EXCEPT ![i] = Done(threads[i].thread)]
    /\ UNCHANGED <<window, confirm, chart_vars, file_vars>>

worker(i) ==
    \/ worker_configure_normal(i)
    \/ worker_delete(i)
    \/ worker_insert_header(i)
    \/ worker_subprocess_run(i)
    \/ worker_hang(i)
    \/ worker_insert_out(i)
    \/ worker_configure_disabled(i)

\* self.destroy(): the main loop returns and the process ends, its daemon
\* threads with it.
op_exit ==
    /\ Button
    /\ window' = "destroyed"
    /\ UNCHANGED <<cmd_vars, chart_vars, file_vars>>

------------------------------------------------------------------------------
\* The file helpers.

\* Paths the user may name; "d/x" lies in "d", "d" in the working directory.
Paths == { "d", "d/x" }
Cwd == "."
Parent(p) == IF p = "d/x" THEN "d" ELSE Cwd

\* What simpledialog.askstring may return: None (cancelled), "" or a path.
Cancelled == "<None>"
Answers == { Cancelled, "" } \cup Paths

\* bool(p) of an askstring result
truthy(p) == p # Cancelled /\ p # ""

kind(f, p) == IF p = Cwd THEN "dir" ELSE f[p]

\* os.path.isfile(p), os.path.isdir(p)
isfile(f, p) == kind(f, p) = "file"
isdir(f, p) == kind(f, p) = "dir"

children(f, p) == { q \in Paths : Parent(q) = p /\ f[q] # "absent" }

\* The result of a file-system call: the new file system and the exception
\* raised ("None" when the call returns).
Ok(f) == [fs |-> f, exc |-> "None"]
Err(f, e) == [fs |-> f, exc |-> e]

\* open(p, 'a').close()
open_append(f, p) ==
    IF kind(f, Parent(p)) = "absent" THEN Err(f, "FileNotFoundError")
    ELSE IF kind(f, Parent(p)) = "file" THEN Err(f, "NotADirectoryError")
    ELSE IF f[p] = "dir" THEN Err(f, "IsADirectoryError")
    ELSE Ok([f EXCEPT ![p] = "file"])

\* os.mkdir(p)
mkdir(f, p) ==
    IF kind(f, Parent(p)) = "absent" THEN Err(f, "FileNotFoundError")
    ELSE IF kind(f, Parent(p)) = "file" THEN Err(f, "NotADirectoryError")
    ELSE IF f[p] # "absent" THEN Err(f, "FileExistsError")
    ELSE Ok([f EXCEPT ![p] = "dir"])

\* os.makedirs(p, exist_ok=True): the missing parents first, then mkdir; an
\* OSError of mkdir is swallowed only when p is a directory.
RECURSIVE makedirs(_, _)
makedirs(f, p) ==
    LET head == Parent(p)
        made == IF head # Cwd /\ kind(f, head) = "absent"
                THEN makedirs(f, head) ELSE Ok(f)
    IN  IF made.exc \notin { "None", "FileExistsError" } THEN made
        ELSE LET r == mkdir(made.fs, p)
             IN  IF r.exc # "None" /\ isdir(made.fs, p) THEN Ok(made.fs)
                 ELSE r

\* os.remove(p) of a regular file
remove(f, p) ==
    IF f[p] = "file" THEN Ok([f EXCEPT ![p] = "absent"])
    ELSE IF f[p] = "dir" THEN Err(f, "IsADirectoryError")
    ELSE Err(f, "FileNotFoundError")

\* os.rmdir(p): only an empty directory is removed.
rmdir(f, p) ==
    IF f[p] = "absent" THEN Err(f, "FileNotFoundError")
    ELSE IF f[p] = "file" THEN Err(f, "NotADirectoryError")
    ELSE IF children(f, p) # {} THEN Err(f, "OSError")
    ELSE Ok([f EXCEPT ![p] = "absent"])

\* A callback that did nothing, one that raised (Tk reports the exception
\* and the main loop goes on), one that ran to its messagebox.showinfo.
Skipped(op, p) == [op |-> op, p |-> p, exc |-> "None", info |-> "None"]
Escaped(op, p, e) == [op |-> op, p |-> p, exc |-> e, info |-> "None"]
Shown(op, p, title) == [op |-> op, p |-> p, exc |-> "None", info |-> title]

\* The common shape of the four helpers: when the test passes, the call,
\* then self._log(message) and messagebox.showinfo(title, p).
helper(op, p, test, r, message, title) ==
    IF ~test
    THEN /\ callback' = Skipped(op, p)
         /\ UNCHANGED <<fs, log>>
    ELSE IF r.exc # "None"
    THEN /\ callback' = Escaped(op, p, r.exc)
         /\ fs' = r.fs
         /\ UNCHANGED log
    ELSE /\ Len(log) < MaxLog
         /\ fs' = r.fs
         /\ log' = Append(log, <<message, p>>)
         /\ callback' = Shown(op, p, title)

op_create_file ==
    /\ Button
    /\ \E p \in Answers :
         helper("op_create_file", p, truthy(p),
                IF truthy(p) THEN open_append(fs, p) ELSE Ok(fs),
                "File created:", "Created")
    /\ UNCHANGED <<window, cmd_vars, chart_vars>>

op_create_dir ==
    /\ Button
    /\ \E p \in Answers :
         helper("op_create_dir", p, truthy(p),
                IF truthy(p) THEN makedirs(fs, p) ELSE Ok(fs),
                "Directory created:", "Created")
    /\ UNCHANGED <<window, cmd_vars, chart_vars>>

\* if p and os.path.isfile(p)
delete_file_test_any(f, p) == truthy(p) /\ kind(f, p) # "absent"
delete_file_test(f, p) == truthy(p) /\ isfile(f, p)

op_delete_file ==
    /\ Button
    /\ \E p \in Answers :
         helper("op_delete_file", p, delete_file_test(fs, p),
                IF truthy(p) THEN remove(fs, p) ELSE Ok(fs),
                "File deleted:", "Deleted")
    /\ UNCHANGED <<window, cmd_vars, chart_vars>>

\* if p and os.path.isdir(p)
delete_dir_test(f, p) == truthy(p) /\ isdir(f, p)

op_delete_dir ==
    /\ Button
    /\ \E p \in Answers :
         helper("op_delete_dir", p, delete_dir_test(fs, p),
                IF truthy(p) THEN rmdir(fs, p) ELSE Ok(fs),
                "Directory deleted:", "Deleted")
    /\ UNCHANGED <<window, cmd_vars, chart_vars>>

------------------------------------------------------------------------------
\* The state after LinuxAssistant() is constructed: both histories hold 60
\* zeros, the labels read 0.0%, the terminal is empty and disabled, and the
\* first tick is scheduled by after(500, ...).
Init ==
    /\ window = "open"
    /\ after_pending = TRUE
    /\ ticks = 0
    /\ metrics = None
    /\ cpu_history = deque_init
    /\ ram_history = deque_init
    /\ legend_labels = [key \in {"CPU", "RAM", "Disk"} |-> 0]
    /\ term = [state |-> "disabled", text |-> <<>>]
    /\ threads = <<>>
    /\ confirm = "none"
    /\ fs = [p \in Paths |-> "absent"]
    /\ log = <<>>
    /\ callback = Skipped("none", "")

NextChart == _update_chart \/ op_exit

NextCmd ==
    \/ op_cpu_usage
    \/ op_memory_usage
    \/ op_disk_usage
    \/ op_network_info
    \/ op_reboot
    \/ \E i \in 1..MaxRuns : worker(i)

NextFiles ==
    \/ op_create_file
    \/ op_create_dir
    \/ op_delete_file
    \/ op_delete_dir
    \/ op_exit

Next == NextChart \/ NextCmd \/ NextFiles

\* The whole program.
Spec == Init /\ [][Next]_vars

\* The refresh loop alone: no button but Exit is pressed.
SpecChart == Init /\ [][NextChart]_vars

\* The command runner alone, its runs overlapping freely.
SpecCmd == Init /\ [][NextCmd]_vars

\* The command runner with the refresh loop, on a machine under a steady
\* load (every tick reads the same triple), a button being pressed only when
\* every earlier command has ended or hangs for ever.
SteadyLoad == <<1234, 5678, 10000>>
Serial(step) ==
    /\ step
    /\ metrics' \in { metrics, SteadyLoad }
    /\ Cardinality(Busy(threads')) <= 1

NextSerial ==
    \/ Serial(_update_chart_ok)
    \/ Serial(_update_chart_raise)
    \/ Serial(op_cpu_usage)
    \/ Serial(op_memory_usage)
    \/ Serial(op_disk_usage)
    \/ Serial(op_network_info)
    \/ Serial(op_reboot_ask)
    \/ Serial(op_reboot_return)
    \/ \E i \in 1..MaxRuns :
        \/ Serial(worker_configure_normal(i))
        \/ Serial(worker_delete(i))
        \/ Serial(worker_insert_header(i))
        \/ Serial(worker_subprocess_run(i))
        \/ Serial(worker_hang(i))
        \/ Serial(worker_insert_out(i))
        \/ Serial(worker_configure_disabled(i))

SpecSerial == Init /\ [][NextSerial]_vars

\* The file helpers alone.
SpecFiles == Init /\ [][NextFiles]_vars

------------------------------------------------------------------------------
\* Properties of the refresh loop (under SpecChart).

Last(h) == h[Len(h)]

\* A step that is a completed tick: it ran to its after() call.
CompletedTick == ticks' = ticks + 1 /\ after_pending'

\* h2 is h with its oldest entry gone, the others in order and x last.
Evicted(h, h2, x) ==
    /\ Len(h2) = Len(h)
    /\ \A k \in 1..(Len(h) - 1) : h2[k] = h[k + 1]
    /\ h2[Len(h2)] = x

FifoStep ==
    IF CompletedTick
    THEN /\ Len(cpu_history) = HISTORY_MAXLEN
            => Evicted(cpu_history, cpu_history', metrics'[1])
         /\ Len(ram_history) = HISTORY_MAXLEN
            => Evicted(ram_history, ram_history', metrics'[2])
    ELSE UNCHANGED <<cpu_history, ram_history>>

\* C1: both history buffers hold at most 60 entries in every reachable
\* state, and a tick on a full buffer removes exactly the oldest entry,
\* keeps the other 59 in order and puts the new sample last; no other step
\* changes a buffer.
C1_BoundedFifo ==
    /\ [](Len(cpu_history) <= 60 /\ Len(ram_history) <= 60)
    /\ [][FifoStep]_vars

\* Two ticks have shifted the buffer: the older sample before the newer.
C1_Witness ==
    /\ ticks = 2
    /\ cpu_history[58] = 0 /\ cpu_history[59] = 1234 /\ cpu_history[60] = 996
    /\ ram_history[59] = 5678 /\ ram_history[60] = 4004

\* C2: every tick, a tick whose read fails included, schedules the next
\* one: while the window is open a tick is always pending.
C2_AlwaysRescheduled == window = "open" => after_pending

\* t (in tenths) is val (in hundredths) to one decimal place.
OneDecimal(t, val) == 10 * t - 5 <= val /\ val <= 10 * t + 5

\* C10: the three readouts show the values of the latest completed tick to
\* one decimal place, the CPU and RAM readouts are the latest entries of
\* their buffers, the buffers have equal length, and at least 2 entries
\* after 2 ticks.
C10_LegendMatchesSample ==
    /\ Len(cpu_history) = Len(ram_history)
    /\ ticks >= 2 => Len(cpu_history) >= 2 /\ Len(ram_history) >= 2
    /\ ticks >= 1 /\ metrics # None =>
        /\ OneDecimal(legend_labels["CPU"], metrics[1])
        /\ OneDecimal(legend_labels["RAM"], metrics[2])
        /\ OneDecimal(legend_labels["Disk"], metrics[3])
        /\ Last(cpu_history) = metrics[1]
        /\ Last(ram_history) = metrics[2]
    /\ OneDecimal(legend_labels["CPU"], Last(cpu_history))
    /\ OneDecimal(legend_labels["RAM"], Last(ram_history))

\* Two completed ticks; the readouts are those of the second, rounded.
C10_Witness ==
    /\ ticks = 2 /\ after_pending
    /\ metrics = <<1234, 5678, 10000>>
    /\ cpu_history[59] = 996
    /\ legend_labels = [key \in {"CPU", "RAM", "Disk"} |->
            IF key = "CPU" THEN 123 ELSE IF key = "RAM" THEN 568 ELSE 1000]

------------------------------------------------------------------------------
\* Properties of the command runner.

\* The pane holds the header and the output of one run of some command.
SingleRun(text) ==
    \E cmd \in Commands : \E res \in Outcomes(cmd) :
        text = <<Header(cmd), worker_line(res)>>

\* C3 (under SpecCmd): each run replaces the content of the pane atomically
\* and entirely, whatever the interleaving of the runs; so once all runs
\* have completed the pane holds exactly the header and the output of a
\* single run, with no text of any other run.
C3_AtomicReplace ==
    Len(threads) > 0 /\ Live(threads) = {} => SingleRun(term.text)

\* Thread i has inserted its line after the run, and no other run is in
\* progress (SpecSerial: but for commands that hang for ever).
Inserted(i) == threads[i].pc = "configure_disabled"
Alone(i) == Live(threads) = {i}

Failed(res) == res.kind = "raised" \/ res.returncode # 0

Ends(i) == threads[i].pc = "configure_disabled" /\ threads'[i].pc = "done"

\* C5 (under SpecSerial): for a run with no other run in progress, non-empty
\* stdout X leaves the pane holding exactly the header and X; empty stdout
\* and stderr Y leaves Y after the header; stderr is not shown when stdout
\* is non-empty; and the pane keeps that text when the run ends.
C5_PaneShowsOutput ==
    /\ [](\A i \in 1..Len(threads) :
            LET res == threads[i].res
            IN  Inserted(i) /\ Alone(i) /\ res.kind = "completed" =>
                /\ res.stdout # Empty =>
                     term.text = <<Header(threads[i].cmd), res.stdout>>
                /\ res.stdout = Empty /\ res.stderr # Empty =>
                     term.text = <<Header(threads[i].cmd), res.stderr>>
                /\ res.stdout # Empty /\ res.stderr # Empty =>
                     \A k \in 1..Len(term.text) : term.text[k] # res.stderr)
    /\ [][\A i \in 1..Len(threads) : Ends(i) => term'.text = term.text]_vars

\* A run that wrote to both streams, alone, shows its stdout.
C5_Witness ==
    \E i \in 1..Len(threads) :
        /\ Inserted(i) /\ Alone(i)
        /\ threads[i].res.stdout # Empty /\ threads[i].res.stderr # Empty
        /\ term.text = <<Header(threads[i].cmd), threads[i].res.stdout>>

\* A step that passes "reboot" to the command runner.
RebootStarted ==
    /\ Len(threads') = Len(threads) + 1
    /\ threads'[Len(threads')].cmd = "reboot"

\* C6 (under SpecSerial): "reboot" reaches the command runner only in the
\* step in which the open confirmation prompt is answered yes; the step
\* in which it is answered no leaves the pane and the threads as they were.
C6_RebootConfirmed ==
    [][ /\ RebootStarted => confirm = "open" /\ confirm' = "yes"
        /\ confirm = "open" /\ confirm' = "no" =>
              term' = term /\ threads' = threads ]_vars

\* The prompt was answered yes and the reboot run has begun.
C6_Witness ==
    /\ confirm = "yes"
    /\ \E i \in 1..Len(threads) :
        threads[i].cmd = "reboot" /\ threads[i].pc = "subprocess_run"

\* C7 (under SpecSerial): while a command hangs, the main loop still runs a
\* pending tick, which reschedules itself, and still handles every button
\* (up to the bounds of the model).
C7_HangBlocksOnlyWorker ==
    (window = "open" /\ \E i \in 1..Len(threads) : threads[i].pc = "hung") =>
        /\ after_pending /\ ticks < MaxTicks => ENABLED _update_chart_ok
        /\ confirm # "open" /\ Len(threads) < MaxRuns =>
            /\ ENABLED op_cpu_usage
            /\ ENABLED op_memory_usage
            /\ ENABLED op_disk_usage
            /\ ENABLED op_network_info
        /\ confirm # "open" => ENABLED op_reboot_ask /\ ENABLED op_exit

\* The first command hangs; since it was started two ticks have run and a
\* second command has been started and has ended.
C7_Witness ==
    /\ Len(threads) >= 2
    /\ threads[1].pc = "hung" /\ threads[2].pc = "done"
    /\ ticks >= 2 /\ after_pending

------------------------------------------------------------------------------
\* Properties of the file helpers (under SpecFiles).

\* The latest callback was handler op; a step with HelperRan(op) is a run of
\* that handler (a helper that logs nothing changes callback or nothing).
HelperRan(op) ==
    callback'.op = op /\ (callback' # callback \/ log' # log \/ fs' # fs)

\* C8: after op_delete_dir on a non-empty directory (which is then still
\* there with what it contains) no exception has left the helper and no
\* 'Deleted' confirmation was shown.
C8_DeleteDirFailsCleanly ==
    ( /\ callback.op = "op_delete_dir"
      /\ callback.p \in Paths
      /\ isdir(fs, callback.p)
      /\ children(fs, callback.p) # {} ) =>
        callback.exc = "None" /\ callback.info = "None"

\* C9: a run of op_delete_file with a name that is cancelled, empty,
\* missing or a directory changes neither the file system nor the log,
\* attempts no removal (nothing is raised) and shows no confirmation.
C9_DeleteFileNoOp ==
    [][ ( /\ HelperRan("op_delete_file")
          /\ ~(callback'.p \in Paths /\ fs[callback'.p] = "file") ) =>
            /\ fs' = fs
            /\ log' = log
            /\ callback'.exc = "None"
            /\ callback'.info = "None" ]_vars

\* op_delete_file was given the directory "d", which holds "d/x", and did
\* nothing.
C9_Witness ==
    /\ callback = Skipped("op_delete_file", "d")
    /\ fs["d"] = "dir" /\ fs["d/x"] = "file"

====
